---- MODULE Spec2Model ----
(***************************************************************************)
(* Model of package oqsopenssl (src/oqsopenssl.go): thin wrappers that     *)
(* drive the `openssl` binary as a subprocess.  Each caller (goroutine)    *)
(* executes one public function at a time, one statement per step, so     *)
(* that concurrent calls interleave.  The external tool and the operating  *)
(* system are nondeterministic: every system call may succeed or fail.     *)
(***************************************************************************)
EXTENDS Integers, Sequences, FiniteSets, TLC

\* ---------------------------------------------------------------- bounds
NumCallers == 1
NumSigners == 2
NumTmpNames == 2

Callers == 1..NumCallers
Signers == 1..NumSigners
TmpNames == 1..NumTmpNames

\* ---------------------------------------------------------------- inputs
Subjects == {"/CN=root", "spiffe://a"}
URIs == {"spiffe://a", "spiffe://b"}
CsrFiles == {"leaf.csr"}
DaysSet == {30, 365}
SignDays == {365}
ToolOutputs == {"", "unable to load certificate"}

Nil == "nil"
Absent == <<"absent">>

NilErr == [nil |-> TRUE, msg |-> <<>>]
OsErr(text) == [nil |-> FALSE, msg |-> <<text>>]

\* ------------------------------------------------------- pure formatting
Digit == <<"0", "1", "2", "3", "4", "5", "6", "7", "8", "9">>

RECURSIVE Itoa(_)
Itoa(n) ==
  IF n < 0 THEN <<"-">> \o Itoa(0 - n)
  ELSE IF n < 10 THEN <<Digit[n + 1]>>
  ELSE Itoa(n \div 10) \o <<Digit[(n % 10) + 1]>>

W(s) == <<s>>

\* fmt.Errorf("<description>: %w", err)
Wrap(description, e) == [nil |-> FALSE, msg |-> <<description, ": ">> \o e.msg]

\* the temporary file's name as a path word
TmpPath(n) == <<"/tmp/extfile-", Itoa(n), ".conf">>

GeneratePrivateKeyArgv(c) ==
  <<W("openssl"), W("genpkey"), W("-algorithm"), W(c.algorithm),
    W("-out"), W(c.outputFile)>>

GenerateRootCertificateArgv(c) ==
  <<W("openssl"), W("req"), W("-nodes"), W("-new"), W("-x509"),
    W("-key"), W(c.keyFile), W("-out"), W(c.outputFile),
    W("-days"), Itoa(c.days), W("-subj"), W(c.subj),
    W("-addext"), <<"subjectAltName=URI:", c.subj>>,
    W("-config"), W(c.configFile)>>

GenerateCSRArgv(c) ==
  <<W("openssl"), W("req"), W("-nodes"), W("-new"),
    W("-newkey"), W(c.algorithm), W("-keyout"), W(c.keyFile),
    W("-out"), W(c.csrFile), W("-subj"), W(c.subj),
    W("-config"), W(c.configFile)>>

\* variant of the extension line without its terminating newline
ExtFileLineUnterminated(spiffeID) == <<"subjectAltName=URI:", spiffeID>>

\* fmt.Sprintf("subjectAltName=URI:%s\n", spiffeID)
ExtFileLine(spiffeID) == <<"subjectAltName=URI:", spiffeID, "\n">>

SignCertificateArgv(c, name) ==
  <<W("openssl"), W("x509"), W("-req"), W("-extfile"), TmpPath(name),
    W("-in"), W(c.csrFile), W("-CA"), W(c.caCertFile),
    W("-CAkey"), W(c.caKeyFile), W("-CAcreateserial"),
    W("-out"), W(c.outputFile), W("-days"), Itoa(c.days)>>

StartServerArgv(c) ==
  <<W("openssl"), W("s_server"), W("-accept"), W("4433"), W("-state"),
    W("-cert"), W(c.certFile), W("-key"), W(c.keyFile), W("-tls1_3"),
    W("-Verify"), W("1"), W("-CAfile"), W(c.caFile), W("-www")>>

StartClientArgv(c) ==
  <<W("openssl"), W("s_client"), W("-connect"), W(c.address), W("-state"),
    W("-cert"), W(c.certFile), W("-key"), W(c.keyFile), W("-tls1_3"),
    W("-CAfile"), W(c.caCertFile)>>

ValidateCertificateArgv(c) ==
  <<W("openssl"), W("verify"), W("-CAfile"), W(c.caCertFile), W(c.certFile)>>

OneShotOps == {"GeneratePrivateKey", "GenerateRootCertificate", "GenerateCSR",
               "SignCertificate", "ValidateCertificate"}
SessionOps == {"StartServer", "StartClient"}

Argv(c, name) ==
  CASE c.op = "GeneratePrivateKey" -> GeneratePrivateKeyArgv(c)
    [] c.op = "GenerateRootCertificate" -> GenerateRootCertificateArgv(c)
    [] c.op = "GenerateCSR" -> GenerateCSRArgv(c)
    [] c.op = "SignCertificate" -> SignCertificateArgv(c, name)
    [] c.op = "StartServer" -> StartServerArgv(c)
    [] c.op = "StartClient" -> StartClientArgv(c)
    [] c.op = "ValidateCertificate" -> ValidateCertificateArgv(c)

\* the errorMessage each one-shot function hands to runCommand
ErrorMessage(op) ==
  CASE op = "GeneratePrivateKey" -> "Failed to generate private key"
    [] op = "GenerateRootCertificate" -> "Failed to generate root certificate"
    [] op = "GenerateCSR" -> "Failed to generate CSR"
    [] op = "SignCertificate" -> "Failed to sign certificate"
    [] op = "ValidateCertificate" -> "Failed to validate certificate"

\* variant of runCommand that drops the captured output from the error
runCommandDropsOutput(errorMessage, err, output) ==
  IF ~err.nil
  THEN [nil |-> FALSE, msg |-> <<errorMessage, ": ">> \o err.msg]
  ELSE NilErr

\* runCommand: fmt.Errorf("%s: %s\n%s", errorMessage, err, string(output))
runCommand(errorMessage, err, output) ==
  IF ~err.nil
  THEN [nil |-> FALSE, msg |-> <<errorMessage, ": ">> \o err.msg \o <<"\n", output>>]
  ELSE NilErr

\* ----------------------------------------------------------------- state
VARIABLES
  pc,        \* per caller: the statement it is about to execute
  call,      \* per caller: function and arguments of the call in progress
  extName,   \* per caller: extFile.Name() (0 before ioutil.TempFile returns)
  result,    \* per caller: the error the call is about to return
  spawns,    \* per caller: child processes spawned by the call in progress
  child,     \* per caller: state of the call's exec.Cmd
  trace,     \* per caller: the system-level steps the call has attempted
  tool,      \* per caller: what the tool invocation did (status, output, ...)
  ret,       \* per caller: the value the last finished call returned
  tmpdir,    \* os.TempDir(): name -> content, or Absent
  csrId      \* csr path -> identity URI given to the GenerateCSR that wrote it

vars == <<pc, call, extName, result, spawns, child, trace, tool, ret,
          tmpdir, csrId>>

NoArgs == [op |-> "none", algorithm |-> "", keyFile |-> "", outputFile |-> "",
           csrFile |-> "", subj |-> "", spiffeID |-> "", configFile |-> "",
           caCertFile |-> "", caKeyFile |-> "", certFile |-> "", caFile |-> "",
           address |-> "", days |-> 0]

NoTool == [status |-> "notrun", output |-> "", argv |-> <<>>,
           extSeen |-> Absent]

NoRet == [op |-> "none", err |-> NilErr, cmd |-> Nil, w |-> Nil, r |-> Nil,
          proc |-> "none", spawns |-> 0, trace |-> <<>>,
          status |-> "notrun", output |-> "", extSeen |-> Absent,
          spiffeID |-> "", csrFile |-> ""]

InitFor(C) ==
  /\ pc = [p \in C |-> "idle"]
  /\ call = [p \in C |-> NoArgs]
  /\ extName = [p \in C |-> 0]
  /\ result = [p \in C |-> NilErr]
  /\ spawns = [p \in C |-> 0]
  /\ child = [p \in C |-> "none"]
  /\ trace = [p \in C |-> <<>>]
  /\ tool = [p \in C |-> NoTool]
  /\ ret = [p \in C |-> NoRet]
  /\ tmpdir = [n \in TmpNames |-> Absent]
  /\ csrId = [f \in CsrFiles |-> Nil]

Init == InitFor(Callers)
InitSign == InitFor(Signers)

\* entering a function: fresh locals
Enter(p, c, first) ==
  /\ pc[p] = "idle"
  /\ call' = [call EXCEPT ![p] = c]
  /\ pc' = [pc EXCEPT ![p] = first]
  /\ extName' = [extName EXCEPT ![p] = 0]
  /\ result' = [result EXCEPT ![p] = NilErr]
  /\ spawns' = [spawns EXCEPT ![p] = 0]
  /\ child' = [child EXCEPT ![p] = "none"]
  /\ trace' = [trace EXCEPT ![p] = <<>>]
  /\ tool' = [tool EXCEPT ![p] = NoTool]
  /\ ret' = [ret EXCEPT ![p] = NoRet]
  /\ UNCHANGED <<tmpdir, csrId>>

CallGeneratePrivateKey(p) ==
  Enter(p, [NoArgs EXCEPT !.op = "GeneratePrivateKey",
                          !.algorithm = "dilithium3",
                          !.outputFile = "ca.key"], "run")

CallGenerateRootCertificate(p) ==
  \E s \in Subjects, u \in URIs, d \in DaysSet :
    Enter(p, [NoArgs EXCEPT !.op = "GenerateRootCertificate",
                            !.keyFile = "ca.key", !.outputFile = "ca.crt",
                            !.subj = s, !.spiffeID = u,
                            !.configFile = "openssl.cnf", !.days = d], "run")

CallGenerateCSR(p) ==
  \E u \in URIs :
    Enter(p, [NoArgs EXCEPT !.op = "GenerateCSR",
                            !.algorithm = "dilithium3",
                            !.keyFile = "leaf.key", !.csrFile = "leaf.csr",
                            !.subj = "/CN=leaf", !.spiffeID = u,
                            !.configFile = "openssl.cnf"], "run")

CallSignCertificate(p) ==
  \E f \in CsrFiles, u \in URIs, d \in SignDays :
    Enter(p, [NoArgs EXCEPT !.op = "SignCertificate",
                            !.csrFile = f, !.caCertFile = "ca.crt",
                            !.caKeyFile = "ca.key", !.spiffeID = u,
                            !.outputFile = "leaf.crt", !.days = d], "create")

CallValidateCertificate(p) ==
  Enter(p, [NoArgs EXCEPT !.op = "ValidateCertificate",
                          !.certFile = "leaf.crt",
                          !.caCertFile = "ca.crt"], "run")

CallStartServer(p) ==
  Enter(p, [NoArgs EXCEPT !.op = "StartServer", !.certFile = "server.crt",
                          !.keyFile = "server.key", !.caFile = "ca.crt"],
        "stdout")

CallStartClient(p) ==
  Enter(p, [NoArgs EXCEPT !.op = "StartClient", !.address = "127.0.0.1:4433",
                          !.certFile = "client.crt", !.keyFile = "client.key",
                          !.caCertFile = "ca.crt"], "stdout")

\* ------------------------------------------------ control-flow successors
\* SignCertificate: where each statement goes on success and on failure
AfterCreate(ok) == IF ok THEN "write" ELSE "return"
AfterWrite(ok) == IF ok THEN "close" ELSE "deferred"
\* variant of the close check that does not return on failure
AfterCloseUnchecked(ok) == "run"
AfterClose(ok) == IF ok THEN "run" ELSE "deferred"
\* variant of runCommand that invokes the tool again after a failure
AfterRunRetrying(op, ok) ==
  IF ~ok THEN "run"
  ELSE IF op = "SignCertificate" THEN "deferred" ELSE "return"
\* runCommand: one CombinedOutput, then back to the caller's return
AfterRun(op, ok) == IF op = "SignCertificate" THEN "deferred" ELSE "return"
\* StartServer / StartClient
AfterStdoutPipe(ok) == IF ok THEN "stdin" ELSE "return"
\* variant of the stdin-pipe check that does not return on failure
AfterStdinPipeUnchecked(ok) == "start"
AfterStdinPipe(ok) == IF ok THEN "start" ELSE "return"

\* ------------------------------------------------------ SignCertificate
\* ioutil.TempFile: O_CREATE|O_EXCL on a random name, so only a name that
\* does not exist can be returned
\* variant of TempFile that opens without O_EXCL
AnyNames(dir) == TmpNames
FreshNames(dir) == {n \in TmpNames : dir[n] = Absent}

\* variant of the cleanup that leaves the file in place
RemoveSkipped(dir, n) == dir
\* os.Remove(name)
Remove(dir, n) == [dir EXCEPT ![n] = Absent]

\* what extFile.WriteString leaves in the file when it fails part-way
Prefixes(line) == {SubSeq(line, 1, k) : k \in 0..(Len(line) - 1)}

Step(p, name) == trace' = [trace EXCEPT ![p] = Append(@, name)]

SignCreate(p) ==
  /\ pc[p] = "create"
  /\ Step(p, "create")
  /\ \/ \E n \in FreshNames(tmpdir) :
          /\ tmpdir' = [tmpdir EXCEPT ![n] = <<>>]
          /\ extName' = [extName EXCEPT ![p] = n]
          /\ pc' = [pc EXCEPT ![p] = AfterCreate(TRUE)]
          /\ UNCHANGED result
     \/ /\ result' = [result EXCEPT ![p] =
              Wrap("failed to create temporary extension file", OsErr("ENOSPC"))]
        /\ pc' = [pc EXCEPT ![p] = AfterCreate(FALSE)]
        /\ UNCHANGED <<tmpdir, extName>>
  /\ UNCHANGED <<call, spawns, child, tool, ret, csrId>>

SignWrite(p) ==
  /\ pc[p] = "write"
  /\ Step(p, "write")
  /\ \/ /\ tmpdir' = [tmpdir EXCEPT ![extName[p]] =
                        @ \o ExtFileLine(call[p].spiffeID)]
        /\ pc' = [pc EXCEPT ![p] = AfterWrite(TRUE)]
        /\ UNCHANGED result
     \/ \E part \in Prefixes(ExtFileLine(call[p].spiffeID)) :
          /\ tmpdir' = [tmpdir EXCEPT ![extName[p]] = @ \o part]
          /\ result' = [result EXCEPT ![p] =
                Wrap("failed to write to temporary extension file", OsErr("ENOSPC"))]
          /\ pc' = [pc EXCEPT ![p] = AfterWrite(FALSE)]
  /\ UNCHANGED <<call, extName, spawns, child, tool, ret, csrId>>

SignClose(p) ==
  /\ pc[p] = "close"
  /\ Step(p, "close")
  /\ \/ /\ pc' = [pc EXCEPT ![p] = AfterClose(TRUE)]
        /\ UNCHANGED result
     \/ /\ result' = [result EXCEPT ![p] =
              Wrap("failed to close temporary extension file", OsErr("EIO"))]
        /\ pc' = [pc EXCEPT ![p] = AfterClose(FALSE)]
  /\ UNCHANGED <<call, extName, spawns, child, tool, ret, tmpdir, csrId>>

\* ------------------------------------------------------------ runCommand
\* cmd.CombinedOutput(): fork/exec the tool ...
RunSpawn(p) ==
  /\ pc[p] = "run"
  /\ Step(p, "spawn")
  /\ LET argv == Argv(call[p], extName[p]) IN
     \/ /\ spawns' = [spawns EXCEPT ![p] = @ + 1]
        /\ child' = [child EXCEPT ![p] = "started"]
        /\ tool' = [tool EXCEPT ![p] = [NoTool EXCEPT !.status = "running",
                                                      !.argv = argv]]
        /\ pc' = [pc EXCEPT ![p] = "wait"]
        /\ UNCHANGED result
     \/ /\ tool' = [tool EXCEPT ![p] = [NoTool EXCEPT !.status = "nospawn",
                                                      !.argv = argv]]
        /\ result' = [result EXCEPT ![p] =
              runCommand(ErrorMessage(call[p].op), OsErr("executable file not found"), "")]
        /\ pc' = [pc EXCEPT ![p] = AfterRun(call[p].op, FALSE)]
        /\ UNCHANGED <<spawns, child>>
  /\ UNCHANGED <<call, extName, ret, tmpdir, csrId>>

\* ... and wait for it to exit, collecting stdout+stderr
RunExit(p) ==
  /\ pc[p] = "wait"
  /\ child' = [child EXCEPT ![p] = "waited"]
  /\ \E ok \in BOOLEAN, out \in ToolOutputs :
       /\ tool' = [tool EXCEPT ![p] =
             [@ EXCEPT !.status = IF ok THEN "exit0" ELSE "exit1",
                       !.output = IF ok THEN "" ELSE out,
                       !.extSeen = IF call[p].op = "SignCertificate"
                                   THEN tmpdir[extName[p]] ELSE Absent]]
       /\ result' = [result EXCEPT ![p] =
             runCommand(ErrorMessage(call[p].op),
                        IF ok THEN NilErr ELSE OsErr("exit status 1"), out)]
       /\ csrId' = IF ok /\ call[p].op = "GenerateCSR"
                   THEN [csrId EXCEPT ![call[p].csrFile] = call[p].spiffeID]
                   ELSE csrId
       /\ pc' = [pc EXCEPT ![p] = AfterRun(call[p].op, ok)]
  /\ UNCHANGED <<call, extName, spawns, trace, ret, tmpdir>>

\* the value a one-shot function returns
Returned(p) ==
  [NoRet EXCEPT !.op = call[p].op, !.err = result[p], !.proc = child[p],
                !.spawns = spawns[p], !.trace = trace[p],
                !.status = tool[p].status, !.output = tool[p].output,
                !.extSeen = tool[p].extSeen, !.spiffeID = call[p].spiffeID,
                !.csrFile = call[p].csrFile]

Leave(p, value) ==
  /\ ret' = [ret EXCEPT ![p] = value]
  /\ pc' = [pc EXCEPT ![p] = "idle"]
  /\ call' = [call EXCEPT ![p] = NoArgs]
  /\ extName' = [extName EXCEPT ![p] = 0]
  /\ result' = [result EXCEPT ![p] = NilErr]
  /\ spawns' = [spawns EXCEPT ![p] = 0]
  /\ child' = [child EXCEPT ![p] = "none"]
  /\ trace' = [trace EXCEPT ![p] = <<>>]
  /\ tool' = [tool EXCEPT ![p] = NoTool]

\* return of a one-shot function with no deferred call pending
OneShotReturn(p) ==
  /\ pc[p] = "return"
  /\ call[p].op \in OneShotOps
  /\ Leave(p, Returned(p))
  /\ UNCHANGED <<tmpdir, csrId>>

\* return of SignCertificate after line 59: the deferred os.Remove runs first
SignReturn(p) ==
  /\ pc[p] = "deferred"
  /\ tmpdir' = Remove(tmpdir, extName[p])
  /\ Leave(p, Returned(p))
  /\ UNCHANGED csrId

\* ------------------------------------------------ StartServer/StartClient
\* variant of the failure return that still hands back the command
StartFailureKeepsCmd(err) ==
  [NoRet EXCEPT !.err = err, !.cmd = "cmd"]

StartFailure(err) ==
  [NoRet EXCEPT !.err = err]

StartSuccess(cmd, stdinPipe, stdoutPipe) ==
  [NoRet EXCEPT !.cmd = cmd, !.w = stdinPipe, !.r = stdoutPipe, !.err = NilErr]

StdoutPipe(p) ==
  /\ pc[p] = "stdout"
  /\ Step(p, "StdoutPipe")
  /\ \/ /\ pc' = [pc EXCEPT ![p] = AfterStdoutPipe(TRUE)]
        /\ UNCHANGED result
     \/ /\ result' = [result EXCEPT ![p] = OsErr("EMFILE")]
        /\ pc' = [pc EXCEPT ![p] = AfterStdoutPipe(FALSE)]
  /\ UNCHANGED <<call, extName, spawns, child, tool, ret, tmpdir, csrId>>

StdinPipe(p) ==
  /\ pc[p] = "stdin"
  /\ Step(p, "StdinPipe")
  /\ \/ /\ pc' = [pc EXCEPT ![p] = AfterStdinPipe(TRUE)]
        /\ UNCHANGED result
     \/ /\ result' = [result EXCEPT ![p] = OsErr("EMFILE")]
        /\ pc' = [pc EXCEPT ![p] = AfterStdinPipe(FALSE)]
  /\ UNCHANGED <<call, extName, spawns, child, tool, ret, tmpdir, csrId>>

Start(p) ==
  /\ pc[p] = "start"
  /\ Step(p, "Start")
  /\ \/ /\ spawns' = [spawns EXCEPT ![p] = @ + 1]
        /\ child' = [child EXCEPT ![p] = "started"]
        /\ UNCHANGED result
     \/ /\ result' = [result EXCEPT ![p] = OsErr("executable file not found")]
        /\ UNCHANGED <<spawns, child>>
  /\ pc' = [pc EXCEPT ![p] = "return"]
  /\ UNCHANGED <<call, extName, tool, ret, tmpdir, csrId>>

StartReturn(p) ==
  /\ pc[p] = "return"
  /\ call[p].op \in SessionOps
  /\ LET shape == IF result[p].nil
                  THEN StartSuccess("cmd", "cmd.stdin", "cmd.stdout")
                  ELSE StartFailure(result[p])
     IN Leave(p, [shape EXCEPT !.op = call[p].op, !.proc = child[p],
                               !.spawns = spawns[p], !.trace = trace[p]])
  /\ UNCHANGED <<tmpdir, csrId>>

\* ------------------------------------------------------------------ Next
Next ==
  \E p \in DOMAIN pc :
    \/ CallGeneratePrivateKey(p)
    \/ CallGenerateRootCertificate(p)
    \/ CallGenerateCSR(p)
    \/ CallSignCertificate(p)
    \/ CallValidateCertificate(p)
    \/ CallStartServer(p)
    \/ CallStartClient(p)
    \/ SignCreate(p)
    \/ SignWrite(p)
    \/ SignClose(p)
    \/ RunSpawn(p)
    \/ RunExit(p)
    \/ OneShotReturn(p)
    \/ SignReturn(p)
    \/ StdoutPipe(p)
    \/ StdinPipe(p)
    \/ Start(p)
    \/ StartReturn(p)

Spec == Init /\ [][Next]_vars

\* concurrent calls of SignCertificate only
NextSign ==
  \E p \in DOMAIN pc :
    \/ CallSignCertificate(p)
    \/ SignCreate(p)
    \/ SignWrite(p)
    \/ SignClose(p)
    \/ RunSpawn(p)
    \/ RunExit(p)
    \/ OneShotReturn(p)
    \/ SignReturn(p)

SpecSign == InitSign /\ [][NextSign]_vars

\* ============================================================ properties
P == DOMAIN pc

HasOpt(argv, opt, val) ==
  \E i \in 1..(Len(argv) - 1) : argv[i] = <<opt>> /\ argv[i + 1] = val

IsPrefix(a, b) == Len(a) <= Len(b) /\ SubSeq(b, 1, Len(a)) = a

Count(seq, x) == Cardinality({i \in 1..Len(seq) : seq[i] = x})

Existing == {n \in TmpNames : tmpdir[n] # Absent}

SignSteps == <<"create", "write", "close", "spawn">>
SessionSteps == <<"StdoutPipe", "StdinPipe", "Start">>

\* C1: every extension file that exists belongs to a SignCertificate call
\* that is still in progress; a call that has returned (by any exit path)
\* has left no file behind, so once no call is in progress the temp
\* directory holds as many extension files as before: none.
C1_ExtFileRemovedOnReturn ==
  /\ \A n \in Existing :
       \E p \in P : pc[p] # "idle" /\ call[p].op = "SignCertificate" /\ extName[p] = n
  /\ (\A p \in P : pc[p] = "idle") => Cardinality(Existing) = 0

\* a SignCertificate whose signing invocation failed has returned and the
\* temp directory is empty
C1_Witness ==
  \E p \in P :
    /\ pc[p] = "idle"
    /\ ret[p].op = "SignCertificate"
    /\ ret[p].trace = SignSteps
    /\ ret[p].status = "exit1"
    /\ Existing = {}

\* C2: in SignCertificate the signing process is spawned only after create,
\* write and close succeeded, in that order; a call that stopped at create,
\* write or close returns an error and has spawned nothing.
C2_NoSpawnOnSetupFailure ==
  \A p \in P :
    /\ call[p].op = "SignCertificate" =>
         /\ IsPrefix(trace[p], SignSteps)
         /\ (pc[p] = "wait" => result[p].nil /\ trace[p] = SignSteps)
         /\ (spawns[p] > 0 => trace[p] = SignSteps)
    /\ (ret[p].op = "SignCertificate" /\ ret[p].trace # SignSteps) =>
         /\ ~ret[p].err.nil
         /\ ret[p].spawns = 0
         /\ ret[p].proc = "none"
         /\ ret[p].status = "notrun"

\* a SignCertificate returned after its close failed
C2_Witness ==
  \E p \in P :
    /\ pc[p] = "idle"
    /\ ret[p].op = "SignCertificate"
    /\ ret[p].trace = <<"create", "write", "close">>
    /\ ~ret[p].err.nil

\* C3: StartServer and StartClient obtain stdout, then stdin, then start the
\* process; once a step has failed nothing further is attempted, so a call
\* whose pipe failed returns the error with the process never started.
C3_PipesBeforeStart ==
  \A p \in P :
    /\ call[p].op \in SessionOps =>
         /\ IsPrefix(trace[p], SessionSteps)
         /\ (~result[p].nil => pc[p] = "return")
         /\ (child[p] # "none" => trace[p] = SessionSteps)
    /\ (ret[p].op \in SessionOps /\ ret[p].trace # SessionSteps) =>
         /\ ~ret[p].err.nil
         /\ ret[p].proc = "none"
         /\ ret[p].spawns = 0

\* a StartClient returned after its stdin pipe could not be obtained
C3_Witness ==
  \E p \in P :
    /\ pc[p] = "idle"
    /\ ret[p].op = "StartClient"
    /\ ret[p].trace = <<"StdoutPipe", "StdinPipe">>
    /\ ~ret[p].err.nil

\* C4: a return of StartServer or StartClient is either (cmd, stdin pipe,
\* stdout pipe, nil) with the process started and not waited for, or
\* (nil, nil, nil, error); a handle never comes with an error.
C4_ReturnShapes ==
  \A p \in P :
    ret[p].op \in SessionOps =>
      \/ /\ ret[p].err.nil
         /\ ret[p].cmd = "cmd"
         /\ ret[p].w = "cmd.stdin"
         /\ ret[p].r = "cmd.stdout"
         /\ ret[p].proc = "started"
      \/ /\ ~ret[p].err.nil
         /\ ret[p].cmd = Nil
         /\ ret[p].w = Nil
         /\ ret[p].r = Nil

\* StartServer returned its three handles with a nil error
C4_Witness ==
  \E p \in P :
    /\ pc[p] = "idle"
    /\ ret[p].op = "StartServer"
    /\ ret[p].err.nil
    /\ ret[p].cmd # Nil

ProcessError(status) ==
  IF status = "nospawn" THEN "executable file not found" ELSE "exit status 1"

\* C5: a one-shot operation whose tool invocation was attempted returns nil
\* exactly when the tool exited successfully; otherwise its error is the
\* operation description, the process error and the captured output.
C5_ErrorIffToolFails ==
  \A p \in P :
    (ret[p].op \in OneShotOps /\ ret[p].status # "notrun") =>
      /\ ret[p].err.nil <=> ret[p].status = "exit0"
      /\ ~ret[p].err.nil =>
           ret[p].err.msg = <<ErrorMessage(ret[p].op), ": ",
                              ProcessError(ret[p].status), "\n", ret[p].output>>

\* ValidateCertificate returned after the verify primitive reported failure
\* with diagnostic output
C5_Witness ==
  \E p \in P :
    /\ pc[p] = "idle"
    /\ ret[p].op = "ValidateCertificate"
    /\ ret[p].status = "exit1"
    /\ ret[p].output # ""

\* C6: a one-shot operation attempts to spawn the tool at most once, returns
\* only when the spawned process has been waited for, and never spawns again
\* after a failure; GenerateCSR asks for a new key and the CSR in that one
\* invocation.
C6_SingleInvocation ==
  \A p \in P :
    /\ call[p].op \in OneShotOps =>
         /\ Count(trace[p], "spawn") <= 1
         /\ spawns[p] <= 1
         /\ (pc[p] \in {"return", "deferred"} => child[p] \in {"none", "waited"})
    /\ ret[p].op \in OneShotOps =>
         /\ Count(ret[p].trace, "spawn") <= 1
         /\ ret[p].spawns <= 1
         /\ ret[p].proc \in {"none", "waited"}
         /\ (ret[p].status = "notrun") = (Count(ret[p].trace, "spawn") = 0)
    /\ (pc[p] = "wait" /\ call[p].op = "GenerateCSR") =>
         /\ HasOpt(tool[p].argv, "-newkey", <<call[p].algorithm>>)
         /\ HasOpt(tool[p].argv, "-keyout", <<call[p].keyFile>>)
         /\ HasOpt(tool[p].argv, "-out", <<call[p].csrFile>>)

\* GenerateCSR returned a tool failure after exactly one invocation
C6_Witness ==
  \E p \in P :
    /\ pc[p] = "idle"
    /\ ret[p].op = "GenerateCSR"
    /\ ret[p].status = "exit1"
    /\ ret[p].spawns = 1
    /\ ret[p].proc = "waited"

\* C7: the root-certificate invocation carries the extension
\* subjectAltName=URI:<identityURI>, built from the identityURI argument.
C7_RootSanFromIdentityURI ==
  \A p \in P :
    (call[p].op = "GenerateRootCertificate" /\ tool[p].status # "notrun") =>
      HasOpt(tool[p].argv, "-addext", <<"subjectAltName=URI:", call[p].spiffeID>>)

\* C8: when a CSR built by GenerateCSR with identity URI U is signed by
\* SignCertificate with identityURI U, the extension file named on the
\* signing command line holds exactly subjectAltName=URI:U and a newline,
\* both while the tool runs and as the tool saw it.
C8_LeafSanEqualsCsrIdentity ==
  \A p \in P :
    /\ (pc[p] = "wait" /\ call[p].op = "SignCertificate"
        /\ csrId[call[p].csrFile] = call[p].spiffeID) =>
         /\ HasOpt(tool[p].argv, "-extfile", TmpPath(extName[p]))
         /\ HasOpt(tool[p].argv, "-in", <<call[p].csrFile>>)
         /\ tmpdir[extName[p]] = <<"subjectAltName=URI:", call[p].spiffeID, "\n">>
    /\ (ret[p].op = "SignCertificate" /\ ret[p].status = "exit0"
        /\ csrId[ret[p].csrFile] = ret[p].spiffeID) =>
         ret[p].extSeen = <<"subjectAltName=URI:", ret[p].spiffeID, "\n">>

\* a CSR was generated with U and then signed successfully with the same U
C8_Witness ==
  \E p \in P :
    /\ pc[p] = "idle"
    /\ ret[p].op = "SignCertificate"
    /\ ret[p].status = "exit0"
    /\ ret[p].err.nil
    /\ csrId[ret[p].csrFile] = ret[p].spiffeID

\* C9: every error a public operation returns is wrapped: an operation
\* description, then ": ", then the underlying error.
C9_EveryErrorWrapped ==
  \A p \in P :
    (ret[p].op # "none" /\ ~ret[p].err.nil) =>
      /\ Len(ret[p].err.msg) >= 3
      /\ ret[p].err.msg[2] = ": "

\* C10: concurrent SignCertificate calls hold distinct extension files; from
\* its creation to the call's return a call's file exists, between its write
\* and the end of its signing invocation the file holds exactly that call's
\* identity line, and when no call is in progress no file remains.
C10_ExclusiveExtFile ==
  /\ \A p, q \in P :
       (p # q /\ extName[p] # 0 /\ extName[q] # 0) => extName[p] # extName[q]
  /\ \A p \in P :
       /\ extName[p] # 0 => tmpdir[extName[p]] # Absent
       /\ (call[p].op = "SignCertificate" /\ pc[p] \in {"close", "run", "wait"}) =>
            tmpdir[extName[p]] = <<"subjectAltName=URI:", call[p].spiffeID, "\n">>
       /\ (call[p].op = "SignCertificate" /\ tool[p].status \in {"exit0", "exit1"}) =>
            tool[p].extSeen = <<"subjectAltName=URI:", call[p].spiffeID, "\n">>
  /\ (\A p \in P : pc[p] = "idle") => Existing = {}

\* two signing invocations for different identities run at the same time
C10_Witness ==
  \E p, q \in P :
    /\ p # q
    /\ pc[p] = "wait" /\ pc[q] = "wait"
    /\ call[p].spiffeID # call[q].spiffeID
    /\ extName[p] # extName[q]
====
